---------------------------- MODULE Spec2Model ----------------------------
(***************************************************************************)
(* A model of trvz/src/input.rs: the loaders that turn one TRGT call       *)
(* (a BCF record and the BAM reads spanning the locus) into the alleles    *)
(* and reads that are plotted.                                             *)
(*                                                                         *)
(* Strings whose characters the code inspects (the MS field, the locus     *)
(* structure, the sequences whose length is taken) are sequences of        *)
(* one-character strings.  A Rust Result or a panic is a tagged tuple:     *)
(* <<"Ok", v>>, <<"Err", message>>, <<"Panic", reason>>; an Option is      *)
(* <<"Some", v>> or <<"None">>.  An error message is the sequence of the   *)
(* pieces its format string puts together.  The messages of get_reads,     *)
(* which format a read name, are records: text holds the pieces of the     *)
(* format string and args the formatted arguments, each the sequence of    *)
(* the code points of its characters.                                      *)
(***************************************************************************)
EXTENDS Integers, Sequences, FiniteSets, TLC

VARIABLES
    entry,            \* which function of input.rs this run exercises
    overflow_checks,  \* build profile: TRUE = overflow-checks on (debug)
    locus,            \* the Locus handed to the function
    bcf,              \* the records of the BCF file, in file order
    bam,              \* the alignments of the BAM file, in file order
    occ,              \* one occurrence string of an MS encoding
    result,           \* what get_genotype / get_reads returned
    allele_seqs,      \* what get_allele_seqs returned
    region_labels,    \* what get_region_labels returned
    flank_labels,     \* what get_flank_labels returned
    motif_spans,      \* what get_motif_spans returned
    inline_res,       \* the span parser of get_region_labels on occ
    span_res          \* the span parser of get_motif_spans on occ

vars == <<entry, overflow_checks, locus, bcf, bam, occ, result, allele_seqs,
          region_labels, flank_labels, motif_spans, inline_res, span_res>>

\* A variable that the run does not use, or a call that has not returned.
Null == <<"Null">>

IsOk(r) == r[1] = "Ok"
IsErr(r) == r[1] = "Err"
IsPanic(r) == r[1] = "Panic"

---------------------------------------------------------------------------
(* Bounds of the model.                                                    *)

\* Longest occurrence string enumerated for the two span parsers.
MaxOccLen == 6
\* Largest start/end coordinate of an enumerated span.
MaxCoord == 3
\* Largest repeat body (allele without flanks) of an enumerated allele.
MaxBody == 4
\* Longest BCF file enumerated for the record scan.
MaxRecords == 3
\* Longest BAM file enumerated for the read extraction.
MaxReads == 3

---------------------------------------------------------------------------
(* usize arithmetic.  A usize has 64 bits; TLC's integers have 32, so a    *)
(* usize is held as its four 16-bit limbs, most significant first:         *)
(* <<0, 0, 0, 5>> is 5 and <<65535, 65535, 65535, 65535>> is usize::MAX.   *)

LimbBits == 16
NumLimbs == 4
UsizeBits == LimbBits * NumLimbs
LimbBase == 2^LimbBits
UsizeMax == <<LimbBase - 1, LimbBase - 1, LimbBase - 1, LimbBase - 1>>

\* A length, an index or a u32 as usize (n below 2^31).
usize_from(n) == <<0, 0, n \div LimbBase, n % LimbBase>>

\* A usize that is below a length of the model, as the integer that indexes
\* a sequence.
as_int(u) == u[3] * LimbBase + u[4]

\* a < b
usize_lt(a, b) ==
    \E k \in 1..NumLimbs : a[k] < b[k] /\ \A j \in 1..(k - 1) : a[j] = b[j]

\* a + b limb by limb: <<carry out of the top limb, the sum modulo 2^64>>.
LimbSum(a, b) ==
    LET s4 == a[4] + b[4]
        s3 == a[3] + b[3] + s4 \div LimbBase
        s2 == a[2] + b[2] + s3 \div LimbBase
        s1 == a[1] + b[1] + s2 \div LimbBase
    IN <<s1 \div LimbBase,
         <<s1 % LimbBase, s2 % LimbBase, s3 % LimbBase, s4 % LimbBase>> >>

\* a - b limb by limb, modulo 2^64.
LimbDiff(a, b) ==
    LET d4 == a[4] - b[4]
        d3 == a[3] - b[3] - (IF d4 < 0 THEN 1 ELSE 0)
        d2 == a[2] - b[2] - (IF d3 < 0 THEN 1 ELSE 0)
        d1 == a[1] - b[1] - (IF d2 < 0 THEN 1 ELSE 0)
    IN <<d1 % LimbBase, d2 % LimbBase, d3 % LimbBase, d4 % LimbBase>>

SubOverflows(a, b) == usize_lt(a, b)
WrappingSub(a, b) == LimbDiff(a, b)
AddOverflows(a, b) == LimbSum(a, b)[1] # 0
WrappingAdd(a, b) == LimbSum(a, b)[2]

\* a - b as the build computes it: with overflow checks an underflow
\* panics, without them it wraps.
usize_sub(checks, a, b) ==
    IF checks /\ SubOverflows(a, b)
    THEN <<"Panic", "attempt to subtract with overflow">>
    ELSE <<"Ok", WrappingSub(a, b)>>

usize_add(checks, a, b) ==
    IF checks /\ AddOverflows(a, b)
    THEN <<"Panic", "attempt to add with overflow">>
    ELSE <<"Ok", WrappingAdd(a, b)>>

---------------------------------------------------------------------------
(* The string operations of the standard library that the parsers use.     *)

Digits == {"0", "1", "2", "3", "4", "5", "6", "7", "8", "9"}

DigitVal(c) ==
    CASE c = "0" -> 0 [] c = "1" -> 1 [] c = "2" -> 2 [] c = "3" -> 3
      [] c = "4" -> 4 [] c = "5" -> 5 [] c = "6" -> 6 [] c = "7" -> 7
      [] c = "8" -> 8 [] c = "9" -> 9

\* str::trim_end_matches(c): drop every trailing c.
RECURSIVE trim_end_matches(_, _)
trim_end_matches(s, c) ==
    IF Len(s) > 0 /\ s[Len(s)] = c
    THEN trim_end_matches(SubSeq(s, 1, Len(s) - 1), c)
    ELSE s

\* str::split(seps): the pieces between separators, empty pieces kept; a
\* string with n separators has n + 1 pieces.
RECURSIVE SplitFrom(_, _, _, _, _)
SplitFrom(s, seps, i, cur, acc) ==
    IF i > Len(s) THEN Append(acc, cur)
    ELSE IF s[i] \in seps
         THEN SplitFrom(s, seps, i + 1, <<>>, Append(acc, cur))
         ELSE SplitFrom(s, seps, i + 1, Append(cur, s[i]), acc)

split(s, seps) == SplitFrom(s, seps, 1, <<>>, <<>>)

\* str::replace(c, to): every c replaced by the string to.
RECURSIVE replace(_, _, _)
replace(s, c, to) ==
    IF Len(s) = 0 THEN <<>>
    ELSE (IF Head(s) = c THEN to ELSE <<Head(s)>>) \o replace(Tail(s), c, to)

\* u * 10 + d limb by limb: <<carry out of the top limb, the value modulo
\* 2^64>>.
TimesTenPlus(u, d) ==
    LET p4 == u[4] * 10 + d
        p3 == u[3] * 10 + p4 \div LimbBase
        p2 == u[2] * 10 + p3 \div LimbBase
        p1 == u[1] * 10 + p2 \div LimbBase
    IN <<p1 \div LimbBase,
         <<p1 % LimbBase, p2 % LimbBase, p3 % LimbBase, p4 % LimbBase>> >>

\* The value of a string of decimal digits: <<"Ok", value>>, or
\* <<"Overflow">> when it exceeds usize::MAX.
RECURSIVE DecimalValue(_)
DecimalValue(s) ==
    IF Len(s) = 0 THEN <<"Ok", usize_from(0)>>
    ELSE LET front == DecimalValue(SubSeq(s, 1, Len(s) - 1))
         IN IF ~IsOk(front) THEN front
            ELSE IF TimesTenPlus(front[2], DigitVal(s[Len(s)]))[1] # 0
                 THEN <<"Overflow">>
                 ELSE <<"Ok", TimesTenPlus(front[2], DigitVal(s[Len(s)]))[2]>>

\* str::parse::<usize>(): an optional leading '+', then one or more decimal
\* digits, the value fitting a usize.
parse_usize(s) ==
    LET body == IF Len(s) > 0 /\ s[1] = "+" THEN Tail(s) ELSE s
    IN IF Len(body) = 0 \/ \E i \in 1..Len(body) : body[i] \notin Digits
       THEN <<"Err", "ParseIntError">>
       ELSE IF ~IsOk(DecimalValue(body))
            THEN <<"Err", "ParseIntError">>
            ELSE DecimalValue(body)

PanicParse == <<"Panic", "called Result::unwrap() on an Err value: ParseIntError">>
PanicNone == <<"Panic", "called Option::unwrap() on a None value">>
PanicIndex == <<"Panic", "index out of bounds">>

\* .map(|s| s.parse::<usize>().unwrap()).collect_tuple().unwrap() into a
\* 3-tuple: collect_tuple pulls three items and then one more to see that
\* the iterator is exhausted, so at most the first four pieces are parsed.
parse_triple(pieces) ==
    LET n == Len(pieces)
        pulled == IF n < 4 THEN n ELSE 4
    IN IF \E i \in 1..pulled : ~IsOk(parse_usize(pieces[i]))
       THEN PanicParse
       ELSE IF n # 3
            THEN PanicNone
            ELSE <<"Ok", <<parse_usize(pieces[1])[2],
                           parse_usize(pieces[2])[2],
                           parse_usize(pieces[3])[2]>> >>

\* get_region_labels, lines 219-224: one occurrence index(start-end).
parse_span_inline(span) ==
    parse_triple(split(trim_end_matches(span, ")"), {"(", "-"}))

\* Mutant of parse_span_entry: '(' is not turned into a separator.
parse_span_entry_keeps_paren(e) ==
    parse_triple(split(replace(e, ")", <<>>), {"-"}))

\* get_motif_spans, lines 264-270: one occurrence index(start-end).
parse_span_entry(e) ==
    parse_triple(split(replace(replace(e, ")", <<>>), "(", <<"-">>), {"-"}))

---------------------------------------------------------------------------
(* The data of the program.                                                *)

\* struc::RegionLabel.  (Seq is the sequence-set operator of TLA+, so the
\* Seq variant is written SeqLabel.)
Flank(start, end) == <<"Flank", start, end>>
Other(start, end) == <<"Other", start, end>>
SeqLabel(start, end) == <<"Seq", start, end>>
Tr(start, end, motif) == <<"Tr", start, end, motif>>

\* input::Span
Span(index, start, end) == [index |-> index, start |-> start, end |-> end]

\* bcf::record::GenotypeAllele and its index()
Unphased(i) == <<"Unphased", i>>
Phased(i) == <<"Phased", i>>
UnphasedMissing == <<"UnphasedMissing">>
PhasedMissing == <<"PhasedMissing">>

allele_index_of(allele) ==
    IF allele[1] \in {"Unphased", "Phased"} THEN <<"Some", allele[2]>> ELSE <<"None">>

---------------------------------------------------------------------------
(* get_allele_seqs, lines 183-194.                                         *)

RECURSIVE AlleleSeqsLoop(_, _, _, _)
AlleleSeqsLoop(loc, record, i, alleles) ==
    IF i > Len(record.gt) THEN <<"Ok", alleles>>
    ELSE LET allele_index == allele_index_of(record.gt[i])
         IN IF allele_index[1] = "None" THEN PanicNone
            ELSE IF allele_index[2] >= Len(record.alleles) THEN PanicIndex
            ELSE AlleleSeqsLoop(loc, record, i + 1,
                     Append(alleles, loc.left_flank
                                     \o record.alleles[allele_index[2] + 1]
                                     \o loc.right_flank))

get_allele_seqs(loc, record) == AlleleSeqsLoop(loc, record, 1, <<>>)

---------------------------------------------------------------------------
(* get_region_labels, lines 196-250.                                       *)

\* Mutant of flank_corrected: the left flank is not added.
flank_corrected_dropped(checks, x, lf_len) == <<"Ok", x>>

\* Lines 226-227: a locus-relative coordinate moved to allele coordinates.
flank_corrected(checks, x, lf_len) == usize_add(checks, x, lf_len)

\* Lines 229-231 and 236-240: the filler pushed when the next segment does
\* not start at the cursor.
push_filler(labels, last_seg_end, start) ==
    IF start # last_seg_end
    THEN Append(labels, SeqLabel(last_seg_end, start))
    ELSE labels

\* Mutant of absent_labels: the body runs to the end of the allele.
absent_labels_to_end(tr_start, tr_end, allele_len) ==
    <<Flank(usize_from(0), tr_start), Other(tr_start, allele_len), Flank(tr_end, allele_len)>>

\* Lines 206-213: the labels of an allele whose encoding is the '.' marker.
absent_labels(tr_start, tr_end, allele_len) ==
    <<Flank(usize_from(0), tr_start), Other(tr_start, tr_end), Flank(tr_end, allele_len)>>

\* Lines 218-234: the loop over the occurrences of one allele's encoding.
\* Returns <<"Ok", labels, last_seg_end>> or the panic that ends it.
RECURSIVE RegionSpanLoop(_, _, _, _, _, _)
RegionSpanLoop(checks, loc, spans, j, labels, last_seg_end) ==
    IF j > Len(spans) THEN <<"Ok", labels, last_seg_end>>
    ELSE LET parsed == parse_span_inline(spans[j])
         IN IF ~IsOk(parsed) THEN parsed
            ELSE IF ~usize_lt(parsed[2][1], usize_from(Len(loc.motifs))) THEN PanicIndex
            ELSE LET motif == loc.motifs[as_int(parsed[2][1]) + 1]
                     start == flank_corrected(checks, parsed[2][2],
                                              usize_from(Len(loc.left_flank)))
                     end == flank_corrected(checks, parsed[2][3],
                                            usize_from(Len(loc.left_flank)))
                 IN IF IsPanic(start) THEN start
                    ELSE IF IsPanic(end) THEN end
                    ELSE RegionSpanLoop(checks, loc, spans, j + 1,
                             Append(push_filler(labels, last_seg_end, start[2]),
                                    Tr(start[2], end[2], motif)),
                             end[2])

\* Lines 204-246: the labels of one allele of length allele_len.
region_labels_of_allele(checks, loc, allele_len, spans) ==
    LET lf_len == usize_from(Len(loc.left_flank))
        rf_len == usize_from(Len(loc.right_flank))
        tr_end == usize_sub(checks, allele_len, rf_len)
    IN IF spans = <<".">>
       THEN IF IsPanic(tr_end) THEN tr_end
            ELSE <<"Ok", absent_labels(lf_len, tr_end[2], allele_len)>>
       ELSE LET walked == RegionSpanLoop(checks, loc, split(spans, {"_"}), 1,
                                         <<Flank(usize_from(0), lf_len)>>, lf_len)
            IN IF IsPanic(walked) THEN walked
               ELSE IF IsPanic(tr_end) THEN tr_end
               ELSE LET filled == push_filler(walked[2], walked[3], tr_end[2])
                        flank_end == usize_add(checks, tr_end[2], rf_len)
                    IN IF IsPanic(flank_end) THEN flank_end
                       ELSE <<"Ok", Append(filled, Flank(tr_end[2], flank_end[2]))>>

\* Lines 203-247: the loop over the comma-separated encodings.
RECURSIVE RegionAlleleLoop(_, _, _, _, _, _)
RegionAlleleLoop(checks, loc, alleles, encodings, i, labels_by_hap) ==
    IF i > Len(encodings) THEN <<"Ok", labels_by_hap>>
    ELSE IF i > Len(alleles) THEN PanicIndex
    ELSE LET labels == region_labels_of_allele(checks, loc, usize_from(Len(alleles[i])),
                                             encodings[i])
         IN IF IsPanic(labels) THEN labels
            ELSE RegionAlleleLoop(checks, loc, alleles, encodings, i + 1,
                                  Append(labels_by_hap, labels[2]))

get_region_labels(checks, loc, alleles, record) ==
    RegionAlleleLoop(checks, loc, alleles, split(record.ms, {","}), 1, <<>>)

---------------------------------------------------------------------------
(* get_motif_spans, lines 252-280.                                         *)

RECURSIVE MotifSpanLoop(_, _, _)
MotifSpanLoop(entries, j, spans) ==
    IF j > Len(entries) THEN <<"Ok", spans>>
    ELSE LET parsed == parse_span_entry(entries[j])
         IN IF ~IsOk(parsed) THEN parsed
            ELSE MotifSpanLoop(entries, j + 1,
                     Append(spans, Span(parsed[2][1], parsed[2][2], parsed[2][3])))

RECURSIVE MotifAlleleLoop(_, _, _)
MotifAlleleLoop(encodings, i, spans_by_allele) ==
    IF i > Len(encodings) THEN <<"Ok", spans_by_allele>>
    ELSE IF encodings[i] = <<".">>
         THEN MotifAlleleLoop(encodings, i + 1, Append(spans_by_allele, <<"None">>))
         ELSE LET spans == MotifSpanLoop(split(encodings[i], {"_"}), 1, <<>>)
              IN IF IsPanic(spans) THEN spans
                 ELSE MotifAlleleLoop(encodings, i + 1,
                          Append(spans_by_allele, <<"Some", spans[2]>>))

get_motif_spans(record) == MotifAlleleLoop(split(record.ms, {","}), 1, <<>>)

---------------------------------------------------------------------------
(* get_flank_labels, lines 282-306.                                        *)

\* Lines 287-292: the length a label adds to the repeat body.
label_len(checks, l) ==
    IF l[1] = "Flank" THEN <<"Ok", usize_from(0)>> ELSE usize_sub(checks, l[3], l[2])

\* Lines 285-293: .map(label_len).sum::<usize>() over one allele's labels.
RECURSIVE TrLenLoop(_, _, _, _)
TrLenLoop(checks, all_labels, k, tr_len) ==
    IF k > Len(all_labels) THEN <<"Ok", tr_len>>
    ELSE LET len == label_len(checks, all_labels[k])
         IN IF IsPanic(len) THEN len
            ELSE LET total == usize_add(checks, tr_len, len[2])
                 IN IF IsPanic(total) THEN total
                    ELSE TrLenLoop(checks, all_labels, k + 1, total[2])

flank_labels_of_allele(checks, loc, all_labels) ==
    LET tr_len == TrLenLoop(checks, all_labels, 1, usize_from(0))
        tr_start == usize_from(Len(loc.left_flank))
    IN IF IsPanic(tr_len) THEN tr_len
       ELSE LET tr_end == usize_add(checks, tr_start, tr_len[2])
            IN IF IsPanic(tr_end) THEN tr_end
               ELSE LET allele_end == usize_add(checks, tr_end[2],
                                                   usize_from(Len(loc.right_flank)))
                    IN IF IsPanic(allele_end) THEN allele_end
                       ELSE <<"Ok", <<Flank(usize_from(0), tr_start),
                                       Other(tr_start, tr_end[2]),
                                       Flank(tr_end[2], allele_end[2])>> >>

RECURSIVE FlankAlleleLoop(_, _, _, _, _)
FlankAlleleLoop(checks, loc, all_labels_by_allele, i, flank_labels_by_allele) ==
    IF i > Len(all_labels_by_allele) THEN <<"Ok", flank_labels_by_allele>>
    ELSE LET labels == flank_labels_of_allele(checks, loc, all_labels_by_allele[i])
         IN IF IsPanic(labels) THEN labels
            ELSE FlankAlleleLoop(checks, loc, all_labels_by_allele, i + 1,
                                 Append(flank_labels_by_allele, labels[2]))

get_flank_labels(checks, loc, all_labels_by_allele) ==
    FlankAlleleLoop(checks, loc, all_labels_by_allele, 1, <<>>)

---------------------------------------------------------------------------
(* get_base_labels, lines 308-320.  The two labelers live in the modules   *)
(* label_hmm and label_motifs; of them the model keeps what the            *)
(* documentation promises: one label sequence per allele, one label per    *)
(* position of the allele.                                                 *)

label_with_hmm(loc, alleles) ==
    [i \in 1..Len(alleles) |-> [p \in 1..Len(alleles[i]) |-> "hmm"]]

label_with_motifs(loc, spans_by_allele, alleles) ==
    [i \in 1..Len(alleles) |-> [p \in 1..Len(alleles[i]) |-> "motifs"]]

\* str::contains(c)
contains(s, c) == \E i \in 1..Len(s) : s[i] = c

get_base_labels(loc, alleles, record) ==
    LET spans_by_allele == get_motif_spans(record)
    IN IF IsPanic(spans_by_allele) THEN spans_by_allele
       ELSE IF contains(loc.struc, "<")
            THEN <<"Ok", label_with_hmm(loc, alleles)>>
            ELSE <<"Ok", label_with_motifs(loc, spans_by_allele[2], alleles)>>

---------------------------------------------------------------------------
(* get_genotype, lines 28-63.                                              *)

\* locus::Allele
Allele(seq, region, flank, base) ==
    [seq |-> seq, region_labels |-> region, flank_labels |-> flank, base_labels |-> base]

\* Lines 50-58: one Allele per assembled sequence; indexing a label list
\* shorter than the list of sequences panics.
RECURSIVE GenotypeLoop(_, _, _, _, _, _)
GenotypeLoop(seqs, region, flank, base, index, genotype) ==
    IF index > Len(seqs) THEN <<"Ok", genotype>>
    ELSE IF index > Len(region) \/ index > Len(flank) \/ index > Len(base) THEN PanicIndex
    ELSE GenotypeLoop(seqs, region, flank, base, index + 1,
             Append(genotype, Allele(seqs[index], region[index], flank[index], base[index])))

\* Line 41: gt[0] == UnphasedMissing
genotype_incomplete(gt) == gt[1] = UnphasedMissing

\* Lines 45-60, one call after the other; a call that panics ends
\* get_genotype.
genotype_after_base(seqs, region, flank, base) ==
    IF IsPanic(base) THEN base
    ELSE GenotypeLoop(seqs, region, flank, base[2], 1, <<>>)

genotype_after_flank(record, loc, seqs, region, flank) ==
    IF IsPanic(flank) THEN flank
    ELSE genotype_after_base(seqs, region, flank[2], get_base_labels(loc, seqs, record))

genotype_after_region(checks, record, loc, seqs, region) ==
    IF IsPanic(region) THEN region
    ELSE genotype_after_flank(record, loc, seqs, region[2],
                              get_flank_labels(checks, loc, region[2]))

genotype_after_seqs(checks, record, loc, seqs) ==
    IF IsPanic(seqs) THEN seqs
    ELSE genotype_after_region(checks, record, loc, seqs[2],
                               get_region_labels(checks, loc, seqs[2], record))

\* Lines 40-60: what the matching record is turned into.
genotype_of_record(checks, record, loc) ==
    IF genotype_incomplete(record.gt)
    THEN <<"Err", <<"TRID=", record.trid, " misses genotyping">> >>
    ELSE genotype_after_seqs(checks, record, loc, get_allele_seqs(loc, record))

\* Mutant of ScanRecords: the scan does not stop at the first match, the
\* last matching record wins.
RECURSIVE ScanRecordsLast(_, _, _, _)
ScanRecordsLast(checks, records, i, loc) ==
    IF i > Len(records) THEN <<"Err", <<"TRID=", loc.id, " missing">> >>
    ELSE IF records[i].trid # loc.id
            \/ \E k \in (i + 1)..Len(records) : records[k].trid = loc.id
         THEN ScanRecordsLast(checks, records, i + 1, loc)
         ELSE genotype_of_record(checks, records[i], loc)

\* Lines 30-62: the scan of the records from record i on.
RECURSIVE ScanRecords(_, _, _, _)
ScanRecords(checks, records, i, loc) ==
    IF i > Len(records) THEN <<"Err", <<"TRID=", loc.id, " missing">> >>
    ELSE IF records[i].trid # loc.id
         THEN ScanRecords(checks, records, i + 1, loc)
         ELSE genotype_of_record(checks, records[i], loc)

get_genotype(checks, records, loc) == ScanRecords(checks, records, 1, loc)

---------------------------------------------------------------------------
(* get_reads, lines 83-181.                                                *)

\* Line 87
search_radius == 1000

\* A u32 (a coordinate of the locus region, a bound of the fetch window) is
\* held as its two 16-bit limbs, most significant first; the positions of
\* the alignments are held the same way.
u32_from(n) == <<n \div LimbBase, n % LimbBase>>

u32_lt(a, b) == a[1] < b[1] \/ (a[1] = b[1] /\ a[2] < b[2])

\* a + b limb by limb: <<carry out of the top limb, the sum modulo 2^32>>.
U32Sum(a, b) ==
    LET s2 == a[2] + b[2]
        s1 == a[1] + b[1] + s2 \div LimbBase
    IN <<s1 \div LimbBase, <<s1 % LimbBase, s2 % LimbBase>> >>

\* a - b limb by limb, for a >= b.
U32Diff(a, b) ==
    LET d2 == a[2] - b[2]
        d1 == a[1] - b[1] - (IF d2 < 0 THEN 1 ELSE 0)
    IN <<d1 % LimbBase, d2 % LimbBase>>

u32_add(checks, a, b) ==
    IF checks /\ U32Sum(a, b)[1] # 0
    THEN <<"Panic", "attempt to add with overflow">>
    ELSE <<"Ok", U32Sum(a, b)[2]>>

\* bam::record::Aux values, and the Err of aux() for a tag that is absent.
AuxAbsent == <<"Absent">>
AuxString(v) == <<"String", v>>
AuxI32(v) == <<"I32", v>>
AuxU8(v) == <<"U8", v>>
AuxArrayU8(v) == <<"ArrayU8", v>>
AuxArrayU32(v) == <<"ArrayU32", v>>

\* read::Read
Read(seq, left_flank, right_flank, allele, meth) ==
    [seq |-> seq, left_flank |-> left_flank, right_flank |-> right_flank,
     allele |-> allele, meth |-> meth]

\* The characters of a read name are code points.  The tables behind
\* char::is_grapheme_extended and the printable test of char::escape_debug
\* are given for the code points up to U+036F (ASCII, Latin-1, Latin
\* Extended, IPA, Spacing Modifiers, Combining Diacritical Marks).
is_grapheme_extended(c) == c \in 768..879

is_printable(c) == c \in (32..126) \cup (161..172) \cup (174..879)

is_unprintable(c) == c \in (0..31) \cup (127..160) \cup {173}

HexDigit(d) == IF d < 10 THEN 48 + d ELSE 87 + d

RECURSIVE Hex(_)
Hex(n) == IF n < 16 THEN <<HexDigit(n)>> ELSE Append(Hex(n \div 16), HexDigit(n % 16))

\* \u{..} with the code point in lower-case hexadecimal.
EscapeUnicode(c) == <<92, 117, 123>> \o Hex(c) \o <<125>>

\* char::escape_debug as {:?} of a string applies it: NUL, tab, carriage
\* return, line feed, backslash and double quote are written with a
\* backslash, a grapheme extender and an unprintable character as \u{..},
\* any other character (the single quote too) as it is.
escape_debug(c) ==
    CASE c = 0 -> <<92, 48>>
      [] c = 9 -> <<92, 116>>
      [] c = 13 -> <<92, 114>>
      [] c = 10 -> <<92, 110>>
      [] c = 92 -> <<92, 92>>
      [] c = 34 -> <<92, 34>>
      [] c \notin {0, 9, 13, 10, 92, 34} /\ is_grapheme_extended(c) -> EscapeUnicode(c)
      [] c \notin {0, 9, 13, 10, 92, 34} /\ ~is_grapheme_extended(c) /\ is_printable(c)
            -> <<c>>
      [] c \notin {0, 9, 13, 10, 92, 34} /\ is_unprintable(c) -> EscapeUnicode(c)

RECURSIVE EscapeAll(_)
EscapeAll(str) ==
    IF Len(str) = 0 THEN <<>> ELSE escape_debug(Head(str)) \o EscapeAll(Tail(str))

\* {:?} of a String: the escaped string between double quotes.
Debug(str) == <<34>> \o EscapeAll(str) \o <<34>>

\* {} of a usize: its decimal digits.
RECURSIVE Display(_)
Display(n) == IF n < 10 THEN <<48 + n>> ELSE Append(Display(n \div 10), 48 + (n % 10))

\* format!(..): the pieces of the format string and the formatted
\* arguments.
Format(text, args) == [text |-> text, args |-> args]

TrgtHint == "Was this BAM file generated by the latest version of TRGT?"

\* Line 88: max(0, start - search_radius), computed in i64.
search_start_of(loc) ==
    IF u32_lt(loc.region.start, u32_from(search_radius))
    THEN u32_from(0)
    ELSE U32Diff(loc.region.start, u32_from(search_radius))

\* Line 89: region.end + search_radius, a u32 addition.
search_end_of(checks, loc) == u32_add(checks, loc.region.end, u32_from(search_radius))

PanicFetch == <<"Panic", "called Result::unwrap() on an Err value: fetch">>

\* Lines 90-91: the alignments that fetch() yields, in file order: those on
\* the contig that overlap the window.  rust-htslib is not part of this
\* source: whether it refuses a window whose end lies before its start
\* (the unwrap of line 91 then panics) or yields no alignment is the input
\* refuses.
fetch(alignments, contig, search_start, search_end, refuses) ==
    LET overlaps(a) == /\ a.contig = contig
                       /\ u32_lt(a.pos, search_end)
                       /\ u32_lt(search_start, a.end)
    IN IF refuses /\ u32_lt(search_end, search_start)
       THEN PanicFetch
       ELSE <<"Ok", SelectSeq(alignments, overlaps)>>

\* Mutant of read_trid: a read without a string TR tag is taken to belong
\* to no locus.
read_trid_lenient(read) ==
    IF read.tags.TR[1] = "String" THEN <<"Ok", read.tags.TR[2]>> ELSE <<"Ok", "">>

\* Lines 98-106
read_trid(read) ==
    IF read.tags.TR[1] = "String" THEN <<"Ok", read.tags.TR[2]>>
    ELSE <<"Err", Format(<<"Missing or malformed ", "TR", " tag in read ", "{}", ". ",
                           TrgtHint>>, <<read.qname>>)>>

\* Mutant of read_meth: an empty MC array is kept as Some(empty).
read_meth_keeps_empty(read) ==
    IF read.tags.MC[1] = "ArrayU8" THEN <<"Ok", <<"Some", read.tags.MC[2]>> >>
    ELSE IF read.tags.MC[1] = "Absent" THEN <<"Ok", <<"None">> >>
    ELSE <<"Err", Format(<<"malformed ", "MC", " tag in read ", "{:?}", ".">>,
                       <<Debug(read.qname)>>)>>

\* Lines 112-127
read_meth(read) ==
    IF read.tags.MC[1] = "ArrayU8"
    THEN IF Len(read.tags.MC[2]) # 0
         THEN <<"Ok", <<"Some", read.tags.MC[2]>> >>
         ELSE <<"Ok", <<"None">> >>
    ELSE IF read.tags.MC[1] # "Absent"
    THEN <<"Err", Format(<<"malformed ", "MC", " tag in read ", "{:?}", ".">>,
                       <<Debug(read.qname)>>)>>
    ELSE <<"Ok", <<"None">> >>

\* Lines 129-143
read_allele(read) ==
    IF read.tags.AL[1] = "I32" THEN <<"Ok", read.tags.AL[2]>>
    ELSE IF read.tags.AL[1] # "Absent"
    THEN <<"Err", Format(<<"malformed ", "AL", " tag in read ", "{:?}", ".">>,
                         <<Debug(read.qname)>>)>>
    ELSE <<"Err", Format(<<"malformatted read. Expected ", "AL", " tag not found: ", "{:?}">>,
                         <<Debug(read.qname)>>)>>

\* Lines 145-169
read_flanks(read) ==
    IF read.tags.FL[1] = "ArrayU32"
    THEN IF Len(read.tags.FL[2]) # 2
         THEN <<"Err", Format(<<"Malformed ", "FL", " tag in read ", "{:?}",
                                ". Expected 2 values, found ", "{}">>,
                              <<Debug(read.qname), Display(Len(read.tags.FL[2]))>>)>>
         ELSE <<"Ok", <<usize_from(read.tags.FL[2][1]), usize_from(read.tags.FL[2][2])>> >>
    ELSE IF read.tags.FL[1] # "Absent"
    THEN <<"Err", Format(<<"malformatted ", "FL", " tag in read ", "{:?}", ".">>,
                         <<Debug(read.qname)>>)>>
    ELSE <<"Err", Format(<<"malformatted read. Expected ", "FL", " tag not found: ", "{:?}">>,
                         <<Debug(read.qname)>>)>>

\* Lines 94-178: the loop over the fetched alignments.
RECURSIVE ReadsLoop(_, _, _, _)
ReadsLoop(reads, i, loc, seqs) ==
    IF i > Len(reads) THEN <<"Ok", seqs>>
    ELSE LET read == reads[i]
             trid == read_trid(read)
             meth == read_meth(read)
             allele == read_allele(read)
             flanks == read_flanks(read)
         IN IF IsErr(trid) THEN trid
            ELSE IF trid[2] # loc.id THEN ReadsLoop(reads, i + 1, loc, seqs)
            ELSE IF IsErr(meth) THEN meth
            ELSE IF IsErr(allele) THEN allele
            ELSE IF IsErr(flanks) THEN flanks
            ELSE ReadsLoop(reads, i + 1, loc,
                     Append(seqs, Read(read.seq, flanks[2][1], flanks[2][2],
                                       allele[2], meth[2])))

\* Lines 87-180.
reads_of_window(alignments, loc, search_end, refuses) ==
    IF IsPanic(search_end) THEN search_end
    ELSE IF IsPanic(fetch(alignments, loc.region.contig, search_start_of(loc),
                          search_end[2], refuses))
         THEN PanicFetch
         ELSE ReadsLoop(fetch(alignments, loc.region.contig, search_start_of(loc),
                              search_end[2], refuses)[2], 1, loc, <<>>)

get_reads(checks, alignments, loc, refuses) ==
    reads_of_window(alignments, loc, search_end_of(checks, loc), refuses)

---------------------------------------------------------------------------
(* The inputs the runs are drawn from.                                     *)

DigitChar(d) ==
    CASE d = 0 -> "0" [] d = 1 -> "1" [] d = 2 -> "2" [] d = 3 -> "3"
      [] d = 4 -> "4" [] d = 5 -> "5" [] d = 6 -> "6" [] d = 7 -> "7"
      [] d = 8 -> "8" [] d = 9 -> "9"

\* The decimal digits of n, as TRGT writes a coordinate into the MS field.
RECURSIVE Decimal(_)
Decimal(n) ==
    IF n < 10 THEN <<DigitChar(n)>>
    ELSE Append(Decimal(n \div 10), DigitChar(n % 10))

\* One occurrence index(start-end), and a list of them joined by '_'.
EncodeSpan(sp) ==
    Decimal(sp[1]) \o <<"(">> \o Decimal(sp[2]) \o <<"-">> \o Decimal(sp[3]) \o <<")">>

RECURSIVE EncodeSpans(_)
EncodeSpans(sps) ==
    IF Len(sps) = 1 THEN EncodeSpan(sps[1])
    ELSE EncodeSpan(sps[1]) \o <<"_">> \o EncodeSpans(Tail(sps))

\* A flank of n bases and a repeat body of n bases.
FlankSeq(n) == [i \in 1..n |-> "G"]
BodySeq(n) == [i \in 1..n |-> IF i % 3 = 1 THEN "C" ELSE IF i % 3 = 2 THEN "A" ELSE "G"]

RegionOf(contig, start, end) == [contig |-> contig, start |-> start, end |-> end]

LocusAt(region, l, r, motifs, struc) ==
    [id |-> "X", region |-> region,
     left_flank |-> FlankSeq(l), right_flank |-> FlankSeq(r),
     motifs |-> motifs, struc |-> struc]

LocusOf(l, r, motifs, struc) ==
    LocusAt(RegionOf("chr1", u32_from(500), u32_from(520)), l, r, motifs, struc)

PlainStruc == <<"(", "C", "A", "G", ")", "n">>
NestedStruc == <<"<", "T", "R", ">">>

RecordOf(trid, gt, alleles, ms) ==
    [trid |-> trid, gt |-> gt, alleles |-> alleles, ms |-> ms]

\* Occurrences with every motif index, start and end up to the bounds, in
\* any order: one span, or two spans of which the second uses motif 0.
SpanChoices == {<<i, s, e>> : i \in 0..1, s \in 0..MaxCoord, e \in 0..MaxCoord}
SpanLists ==
    {<<sp>> : sp \in SpanChoices}
    \cup {<<sp, <<0, s, e>> >> : sp \in SpanChoices, s \in 0..MaxCoord, e \in 0..MaxCoord}

\* Encodings that depart from the index(start-end) syntax.
MalformedEncodings ==
    { <<"0", "(", "x", "-", "3", ")">>,
      <<>>,
      <<"0", "(", "1", "-", "2">>,
      <<"0", "(", "1", ")", "-", "2">>,
      <<"0", "(", "1", "-", "2", ")", "-", "3">>,
      <<"0", "(", "1", "-", ")">>,
      <<"0", "(", "0", "-", "1", ")", "_">>,
      <<"-", "1", "(", "0", "-", "1", ")">>,
      <<"+", "0", "(", "0", "-", "+", "1", ")", ")">> }

\* Encodings with a coordinate that needs the whole width of a usize:
\* 0(0-4294967296), 0(0-18446744073709551615), 0(18446744073709551615-0)
\* and, one above usize::MAX, 0(0-18446744073709551616).
TwoPow32 == <<"4", "2", "9", "4", "9", "6", "7", "2", "9", "6">>
UsizeMaxDigits ==
    <<"1", "8", "4", "4", "6", "7", "4", "4", "0", "7",
      "3", "7", "0", "9", "5", "5", "1", "6", "1", "5">>
AboveUsizeMaxDigits ==
    <<"1", "8", "4", "4", "6", "7", "4", "4", "0", "7",
      "3", "7", "0", "9", "5", "5", "1", "6", "1", "6">>
WideEncodings ==
    { <<"0", "(", "0", "-">> \o TwoPow32 \o <<")">>,
      <<"0", "(", "0", "-">> \o UsizeMaxDigits \o <<")">>,
      <<"0", "(">> \o UsizeMaxDigits \o <<"-", "0", ")">>,
      <<"0", "(", "0", "-">> \o AboveUsizeMaxDigits \o <<")">> }

Encodings ==
    {<<".">>} \cup {EncodeSpans(sps) : sps \in SpanLists} \cup MalformedEncodings
    \cup WideEncodings

LabelLoci == {LocusOf(0, 0, <<"CAG">>, PlainStruc),
              LocusOf(2, 1, <<"CAG", "CCG">>, PlainStruc)}

\* One called allele with every encoding and every body length.
OneAlleleRecords ==
    {RecordOf("X", <<Unphased(0)>>, <<BodySeq(b)>>, ms) :
        b \in 0..MaxBody, ms \in Encodings}

\* Two called alleles, and records whose MS field has one encoding too many
\* or too few.
PairEncodings == {<<".">>, EncodeSpans(<<<<0, 0, 2>>>>),
                  EncodeSpans(<<<<0, 1, 2>>, <<0, 1, 3>> >>),
                  EncodeSpans(<<<<0, 0, 1>>, <<0, 2, 3>> >>)}
TwoAlleleRecords ==
    {RecordOf("X", <<Unphased(0), Phased(1)>>, <<BodySeq(3), BodySeq(MaxBody)>>,
              e1 \o <<",">> \o e2) : e1 \in PairEncodings, e2 \in PairEncodings}
    \cup {RecordOf("X", <<Unphased(1)>>, <<BodySeq(3), BodySeq(MaxBody)>>,
                   e1 \o <<",">> \o e2) : e1 \in PairEncodings, e2 \in {<<".">>}}
    \cup {RecordOf("X", <<Unphased(0), Phased(1)>>, <<BodySeq(3), BodySeq(MaxBody)>>, e1) :
             e1 \in PairEncodings}

\* The scenarios the documentation spells out: flanks of 10 and 10, the
\* encoding 0(0-20)_0(25-45) on an allele of length 65, and the encoding
\* '.' on an allele of length 40.
ExampleLocus == LocusOf(10, 10, <<"CAG">>, PlainStruc)
ExampleSpansRecord ==
    RecordOf("X", <<Unphased(0)>>, <<BodySeq(45)>>,
             EncodeSpans(<<<<0, 0, 20>>, <<0, 25, 45>> >>))
ExampleAbsentRecord == RecordOf("X", <<Unphased(0)>>, <<BodySeq(20)>>, <<".">>)

LabelInputs ==
    {<<l, r>> : l \in LabelLoci, r \in OneAlleleRecords \cup TwoAlleleRecords}
    \cup {<<ExampleLocus, ExampleSpansRecord>>, <<ExampleLocus, ExampleAbsentRecord>>}

\* Every string of at most MaxOccLen characters over the characters of an
\* occurrence.
OccAlphabet == {"0", "1", "(", ")", "-", "+"}
OccStrings == UNION {[1..n -> OccAlphabet] : n \in 0..MaxOccLen}

\* The loci and records of the BCF scan.  ScanPool holds a few records of
\* the locus X and of another locus Y, from which whole files are built.
GenotypeLoci == {LocusOf(2, 1, <<"CAG", "CCG">>, PlainStruc),
                 LocusOf(1, 0, <<"CAG">>, NestedStruc)}

RecordAlleles == <<BodySeq(3), BodySeq(MaxBody)>>

ScanPool ==
    { RecordOf("X", <<Unphased(0), Phased(1)>>, RecordAlleles,
               EncodeSpans(<<<<0, 0, 3>>>>) \o <<",", ".">>),
      RecordOf("X", <<Unphased(1)>>, RecordAlleles, <<".">>),
      RecordOf("X", <<UnphasedMissing>>, RecordAlleles, <<".">>),
      RecordOf("X", <<Unphased(0), UnphasedMissing>>, RecordAlleles, <<".", ",", ".">>),
      RecordOf("X", <<Unphased(0)>>, RecordAlleles, <<"0", "(", "x", "-", "3", ")">>),
      RecordOf("Y", <<Unphased(0)>>, RecordAlleles, <<".">>),
      RecordOf("Y", <<UnphasedMissing, UnphasedMissing>>, RecordAlleles, <<".">>) }

BcfFiles == UNION {[1..n -> ScanPool] : n \in 0..MaxRecords}

\* Files of one record of the locus X: a complete genotype with every MS
\* field of MsChoices, and every genotype of GtChoices with an MS field of
\* '.' encodings.
GtChoices ==
    { <<Unphased(0)>>, <<Unphased(0), Phased(1)>>, <<Unphased(0), Phased(2)>>,
      <<UnphasedMissing>>, <<UnphasedMissing, UnphasedMissing>>,
      <<UnphasedMissing, Phased(1)>>,
      <<Unphased(0), UnphasedMissing>>, <<Unphased(0), PhasedMissing>> }

MsChoices ==
    MalformedEncodings
    \cup WideEncodings
    \cup PairEncodings
    \cup {e1 \o <<",">> \o e2 : e1 \in PairEncodings, e2 \in PairEncodings}
    \cup {EncodeSpans(<<<<2, 0, 1>>>>), EncodeSpans(<<<<0, 2, 1>>>>),
          EncodeSpans(<<<<0, 0, 1>>>>) \o <<",">>,
          <<".", ",", ".", ",", ".">>}

OneRecordFiles ==
    {<<RecordOf("X", gt, RecordAlleles, ms)>> :
        gt \in {<<Unphased(0)>>, <<Unphased(0), Phased(1)>>}, ms \in MsChoices}
    \cup {<<RecordOf("X", gt, RecordAlleles, ms)>> :
             gt \in GtChoices, ms \in {<<".">>, <<".", ",", ".">>}}

\* The alignments of the BAM file.  Each has the tags TR, MC, AL and FL,
\* present with some type or absent.
TagsOf(tr, mc, al, fl) == [TR |-> tr, MC |-> mc, AL |-> al, FL |-> fl]

GoodAL == AuxI32(1)
GoodFL == AuxArrayU32(<<3, 4>>)

\* Reads of the locus X with every shape of the MC tag.
MatchingTags ==
    {TagsOf(AuxString("X"), mc, GoodAL, GoodFL) :
        mc \in {AuxAbsent, AuxArrayU8(<<>>), AuxArrayU8(<<7, 200>>), AuxString("x")}}

\* Reads of the locus X with a missing or malformed AL or FL tag.
FaultyTags ==
    {TagsOf(AuxString("X"), AuxAbsent, al, GoodFL) : al \in {AuxAbsent, AuxU8(1)}}
    \cup {TagsOf(AuxString("X"), AuxArrayU8(<<7>>), GoodAL, fl) :
             fl \in {AuxAbsent, AuxArrayU8(<<3, 4>>), AuxArrayU32(<<3>>),
                     AuxArrayU32(<<3, 4, 5>>)}}
    \cup {TagsOf(AuxString("X"), AuxI32(0), AuxAbsent, AuxAbsent)}

\* Reads of another locus, and reads without a string TR tag.
OtherTags ==
    {TagsOf(AuxString("Y"), AuxAbsent, GoodAL, GoodFL),
     TagsOf(AuxString("Y"), AuxString("x"), AuxAbsent, AuxArrayU32(<<3>>)),
     TagsOf(AuxAbsent, AuxAbsent, GoodAL, GoodFL),
     TagsOf(AuxI32(7), AuxAbsent, GoodAL, GoodFL)}

\* Where an alignment lies: next to the locus, or far from it.
PlaceOf(contig, pos, end) == [contig |-> contig, pos |-> pos, end |-> end]
NearLocus == PlaceOf("chr1", u32_from(300), u32_from(900))
FarFromLocus == PlaceOf("chr1", u32_from(5000), u32_from(5600))
OtherContig == PlaceOf("chr2", u32_from(300), u32_from(900))

AlignmentPool ==
    {<<t, NearLocus>> : t \in MatchingTags \cup FaultyTags \cup OtherTags}
    \cup {<<TagsOf(AuxAbsent, AuxAbsent, AuxAbsent, AuxAbsent), FarFromLocus>>,
          <<TagsOf(AuxString("X"), AuxAbsent, GoodAL, GoodFL), OtherContig>>}

\* Read names: m1/11, a"b\ (a double quote and a backslash), a form feed
\* followed by U+0301 and NUL, m1/44, a tab and a single quote, m1/66.
QNames == << <<109, 49, 47, 49, 49>>, <<97, 34, 98, 92>>, <<12, 769, 0>>,
             <<109, 49, 47, 52, 52>>, <<9, 39>>, <<109, 49, 47, 54, 54>> >>
ReadSeqs == <<"CAGCAG", "CAGCAGCAG", "CAG", "CAGCCG", "CCGCAG", "CCG">>

AlignmentAt(i, choice) ==
    [qname |-> QNames[i], seq |-> ReadSeqs[i], tags |-> choice[1],
     contig |-> choice[2].contig, pos |-> choice[2].pos, end |-> choice[2].end]

BamFiles ==
    UNION {{[i \in 1..n |-> AlignmentAt(i, f[i])] : f \in [1..n -> AlignmentPool]} :
              n \in 0..MaxReads}

\* Loci at the upper end of the u32 coordinates.  TopLocus is
\* chr1:4294966000-4294966290, whose window ends at 4294967290; EdgeLocus
\* is chr1:4294967000-4294967290, whose region.end + search_radius exceeds
\* u32::MAX.
TopLocus ==
    LocusAt(RegionOf("chr1", <<65535, 64240>>, <<65535, 64530>>), 2, 1, <<"CAG">>, PlainStruc)
EdgeLocus ==
    LocusAt(RegionOf("chr1", <<65535, 65240>>, <<65535, 65530>>), 2, 1, <<"CAG">>, PlainStruc)

\* An alignment at chr1:4294965796-4294966996, next to both loci.
NearTop == PlaceOf("chr1", <<65535, 64036>>, <<65535, 65236>>)

TopPool ==
    {<<t, place>> :
        t \in {TagsOf(AuxString("X"), AuxArrayU8(<<7, 200>>), GoodAL, GoodFL),
               TagsOf(AuxString("X"), AuxAbsent, AuxAbsent, GoodFL),
               TagsOf(AuxAbsent, AuxAbsent, GoodAL, GoodFL)},
        place \in {NearLocus, NearTop}}

TopBamFiles ==
    UNION {{[i \in 1..n |-> AlignmentAt(i, f[i])] : f \in [1..n -> TopPool]} : n \in 0..2}

---------------------------------------------------------------------------
(* The two span parsers applied to one occurrence string.                  *)

InitParse ==
    /\ entry = "parse"
    /\ occ \in OccStrings
    /\ inline_res = Null /\ span_res = Null
    /\ overflow_checks = Null /\ locus = Null /\ bcf = Null /\ bam = Null
    /\ result = Null /\ allele_seqs = Null /\ region_labels = Null
    /\ flank_labels = Null /\ motif_spans = Null

ParseSpanInline ==
    /\ entry = "parse" /\ inline_res = Null
    /\ inline_res' = parse_span_inline(occ)
    /\ UNCHANGED <<entry, overflow_checks, locus, bcf, bam, occ, result, allele_seqs,
                   region_labels, flank_labels, motif_spans, span_res>>

ParseSpanEntry ==
    /\ entry = "parse" /\ span_res = Null
    /\ span_res' = parse_span_entry(occ)
    /\ UNCHANGED <<entry, overflow_checks, locus, bcf, bam, occ, result, allele_seqs,
                   region_labels, flank_labels, motif_spans, inline_res>>

NextParse == ParseSpanInline \/ ParseSpanEntry

SpecParse == InitParse /\ [][NextParse]_vars

---------------------------------------------------------------------------
(* The label builders applied to one record, in the order get_genotype     *)
(* calls them.                                                             *)

InitLabels ==
    /\ entry = "labels"
    /\ overflow_checks \in BOOLEAN
    /\ \E in \in LabelInputs : locus = in[1] /\ bcf = <<in[2]>>
    /\ allele_seqs = Null /\ region_labels = Null
    /\ flank_labels = Null /\ motif_spans = Null
    /\ bam = Null /\ occ = Null /\ result = Null
    /\ inline_res = Null /\ span_res = Null

CallGetAlleleSeqs ==
    /\ entry = "labels" /\ allele_seqs = Null
    /\ allele_seqs' = get_allele_seqs(locus, bcf[1])
    /\ UNCHANGED <<entry, overflow_checks, locus, bcf, bam, occ, result,
                   region_labels, flank_labels, motif_spans, inline_res, span_res>>

CallGetRegionLabels ==
    /\ entry = "labels" /\ IsOk(allele_seqs) /\ region_labels = Null
    /\ region_labels' = get_region_labels(overflow_checks, locus, allele_seqs[2], bcf[1])
    /\ UNCHANGED <<entry, overflow_checks, locus, bcf, bam, occ, result, allele_seqs,
                   flank_labels, motif_spans, inline_res, span_res>>

CallGetFlankLabels ==
    /\ entry = "labels" /\ IsOk(region_labels) /\ flank_labels = Null
    /\ flank_labels' = get_flank_labels(overflow_checks, locus, region_labels[2])
    /\ UNCHANGED <<entry, overflow_checks, locus, bcf, bam, occ, result, allele_seqs,
                   region_labels, motif_spans, inline_res, span_res>>

CallGetMotifSpans ==
    /\ entry = "labels" /\ IsOk(region_labels) /\ IsOk(flank_labels)
    /\ motif_spans = Null
    /\ motif_spans' = get_motif_spans(bcf[1])
    /\ UNCHANGED <<entry, overflow_checks, locus, bcf, bam, occ, result, allele_seqs,
                   region_labels, flank_labels, inline_res, span_res>>

NextLabels ==
    \/ CallGetAlleleSeqs
    \/ CallGetRegionLabels
    \/ CallGetFlankLabels
    \/ CallGetMotifSpans

SpecLabels == InitLabels /\ [][NextLabels]_vars

---------------------------------------------------------------------------
(* get_genotype on a BCF file.                                             *)

InitGenotype ==
    /\ entry = "get_genotype"
    /\ overflow_checks \in BOOLEAN
    /\ locus \in GenotypeLoci
    /\ bcf \in BcfFiles \cup OneRecordFiles
    /\ result = Null
    /\ bam = Null /\ occ = Null /\ allele_seqs = Null /\ region_labels = Null
    /\ flank_labels = Null /\ motif_spans = Null
    /\ inline_res = Null /\ span_res = Null

GetGenotype ==
    /\ entry = "get_genotype" /\ result = Null
    /\ result' = get_genotype(overflow_checks, bcf, locus)
    /\ UNCHANGED <<entry, overflow_checks, locus, bcf, bam, occ, allele_seqs,
                   region_labels, flank_labels, motif_spans, inline_res, span_res>>

NextGenotype == GetGenotype

SpecGenotype == InitGenotype /\ [][NextGenotype]_vars

---------------------------------------------------------------------------
(* get_reads on a BAM file.                                                *)

InitReads ==
    /\ entry = "get_reads"
    /\ overflow_checks \in BOOLEAN
    /\ \/ locus = LocusOf(2, 1, <<"CAG">>, PlainStruc) /\ bam \in BamFiles
       \/ locus \in {TopLocus, EdgeLocus} /\ bam \in TopBamFiles
    /\ result = Null
    /\ bcf = Null /\ occ = Null /\ allele_seqs = Null
    /\ region_labels = Null /\ flank_labels = Null /\ motif_spans = Null
    /\ inline_res = Null /\ span_res = Null

GetReads ==
    /\ entry = "get_reads" /\ result = Null
    /\ \E refuses \in BOOLEAN : result' = get_reads(overflow_checks, bam, locus, refuses)
    /\ UNCHANGED <<entry, overflow_checks, locus, bcf, bam, occ, allele_seqs,
                   region_labels, flank_labels, motif_spans, inline_res, span_res>>

NextReads == GetReads

SpecReads == InitReads /\ [][NextReads]_vars

---------------------------------------------------------------------------
(* Every run of the module.                                                *)

Init == InitParse \/ InitLabels \/ InitGenotype \/ InitReads

Next == NextParse \/ NextLabels \/ NextGenotype \/ NextReads

Spec == Init /\ [][Next]_vars

---------------------------------------------------------------------------
(* What the properties of the label builders speak about.                  *)

TheRecord == bcf[1]
LfLen == Len(locus.left_flank)
RfLen == Len(locus.right_flank)
EncodingOf(i) == split(TheRecord.ms, {","})[i]
AlleleLen(i) == Len(allele_seqs[2][i])
BodyLen(i) == AlleleLen(i) - LfLen - RfLen
NumLabelled == Len(region_labels[2])

\* The (index, start, end) triples an encoding lists, as get_motif_spans
\* decodes them.
\* A label and a triple written with integers.
FlankAt(start, end) == Flank(usize_from(start), usize_from(end))
OtherAt(start, end) == Other(usize_from(start), usize_from(end))
SeqAt(start, end) == SeqLabel(usize_from(start), usize_from(end))
TrAt(start, end, motif) == Tr(usize_from(start), usize_from(end), motif)
TripleAt(index, start, end) == <<usize_from(index), usize_from(start), usize_from(end)>>

usize_le(a, b) == ~usize_lt(b, a)

TriplesOf(enc) ==
    IF enc = <<".">> THEN <<>>
    ELSE [j \in 1..Len(split(enc, {"_"})) |-> parse_span_entry(split(enc, {"_"})[j])[2]]

\* The first label starts at 0, each label starts where the previous one
\* ends, the last label ends at len.
Chained(labels, len) ==
    /\ Len(labels) > 0
    /\ labels[1][2] = usize_from(0)
    /\ \A k \in 2..Len(labels) : labels[k][2] = labels[k - 1][3]
    /\ labels[Len(labels)][3] = usize_from(len)

Forward(labels) == \A k \in 1..Len(labels) : usize_le(labels[k][2], labels[k][3])

\* Some non-flank label has its end before its start, so end - start
\* underflows.
Underflows(labels) ==
    \E k \in 1..Len(labels) : labels[k][1] # "Flank" /\ usize_lt(labels[k][3], labels[k][2])

\* The sum of end - start over the non-flank labels, as an integer; used
\* where no end - start underflows.
RECURSIVE NonFlankSum(_)
NonFlankSum(labels) ==
    IF Len(labels) = 0 THEN 0
    ELSE (IF Head(labels)[1] = "Flank" THEN 0
          ELSE as_int(LimbDiff(Head(labels)[3], Head(labels)[2])))
         + NonFlankSum(Tail(labels))

ThreeSegments(l, t, r) == <<FlankAt(0, l), OtherAt(l, l + t), FlankAt(l + t, l + t + r)>>

\* C1: for every encoding get_region_labels accepts, the labels
\* of each allele are ordered, contiguous and non-overlapping and cover
\* [0, A): first start 0, start <= end, each start the previous end, last
\* end A.
C1_LabelsCoverAllele ==
    IsOk(region_labels) =>
        \A i \in 1..NumLabelled :
            /\ Chained(region_labels[2][i], AlleleLen(i))
            /\ Forward(region_labels[2][i])

\* C6: for every accepted encoding get_flank_labels yields
\* Flank(0,L), Other(L,L+T), Flank(L+T,L+T+R) with T the sum of the
\* non-flank lengths, and no end - start underflows.
C6_FlankLabelsFromSum ==
    flank_labels # Null =>
        /\ IsOk(flank_labels)
        /\ \A i \in 1..NumLabelled :
              /\ ~Underflows(region_labels[2][i])
              /\ flank_labels[2][i]
                     = ThreeSegments(LfLen, NonFlankSum(region_labels[2][i]), RfLen)

\* C7: an allele encoded '.' gets exactly Flank(0,L), Other(L,A-R),
\* Flank(A-R,A) from get_region_labels, and get_flank_labels returns the
\* same three boundaries for it.
C7_AbsentEncodingThreeLabels ==
    IsOk(region_labels) =>
        /\ \A i \in 1..NumLabelled :
              EncodingOf(i) = <<".">> =>
                  /\ region_labels[2][i]
                         = <<FlankAt(0, LfLen),
                             OtherAt(LfLen, AlleleLen(i) - RfLen),
                             FlankAt(AlleleLen(i) - RfLen, AlleleLen(i))>>
                  /\ IsOk(flank_labels) => flank_labels[2][i] = region_labels[2][i]
        /\ (flank_labels # Null /\ \A i \in 1..NumLabelled : EncodingOf(i) = <<".">>)
              => IsOk(flank_labels)

\* C7 witness: the documented scenario, '.' on an allele of length 40 with
\* flanks of 10 and 10.
C7_Witness ==
    /\ TheRecord.ms = <<".">>
    /\ IsOk(allele_seqs) /\ AlleleLen(1) = 40 /\ LfLen = 10 /\ RfLen = 10
    /\ region_labels = <<"Ok", << <<FlankAt(0, 10), OtherAt(10, 30), FlankAt(30, 40)>> >> >>
    /\ flank_labels = region_labels

\* The labels the documentation describes for a list of spans: for each
\* span an optional filler from the cursor, then the Tr label; then an
\* optional trailing filler; then the right flank.
Shifted(x) == WrappingAdd(x, usize_from(LfLen))
CursorAt(trs, j) == IF j = 1 THEN usize_from(LfLen) ELSE Shifted(trs[j - 1][3])

RECURSIVE SpanLabelsFrom(_, _)
SpanLabelsFrom(trs, j) ==
    IF j > Len(trs) THEN <<>>
    ELSE (IF Shifted(trs[j][2]) # CursorAt(trs, j)
          THEN <<SeqLabel(CursorAt(trs, j), Shifted(trs[j][2]))>>
          ELSE <<>>)
         \o <<Tr(Shifted(trs[j][2]), Shifted(trs[j][3]), locus.motifs[as_int(trs[j][1]) + 1])>>
         \o SpanLabelsFrom(trs, j + 1)

DescribedLabels(trs, allele_len) ==
    <<FlankAt(0, LfLen)>>
    \o SpanLabelsFrom(trs, 1)
    \o (IF CursorAt(trs, Len(trs) + 1) # usize_from(allele_len - RfLen)
        THEN <<SeqLabel(CursorAt(trs, Len(trs) + 1), usize_from(allele_len - RfLen))>>
        ELSE <<>>)
    \o <<FlankAt(allele_len - RfLen, allele_len)>>

\* C9: for a non-absent encoding get_region_labels emits Flank(0,L), per
\* span an optional Seq(cursor, start+L) when start+L differs from the
\* cursor and then Tr(start+L, end+L, motif), one trailing Seq(cursor, A-R)
\* when the cursor differs from A-R, and Flank(A-R, A).
C9_SpansBecomeLabels ==
    IsOk(region_labels) =>
        \A i \in 1..NumLabelled :
            EncodingOf(i) # <<".">> =>
                region_labels[2][i] = DescribedLabels(TriplesOf(EncodingOf(i)), AlleleLen(i))

\* C9 witness: the documented scenario, 0(0-20)_0(25-45) on an allele of
\* length 65 with flanks of 10 and 10.
C9_Witness ==
    /\ TheRecord = ExampleSpansRecord
    /\ IsOk(allele_seqs) /\ AlleleLen(1) = 65 /\ LfLen = 10 /\ RfLen = 10
    /\ region_labels = <<"Ok", << <<FlankAt(0, 10), TrAt(10, 30, "CAG"), SeqAt(30, 35),
                                    TrAt(35, 55, "CAG"), FlankAt(55, 65)>> >> >>

---------------------------------------------------------------------------
(* The two span parsers compared.                                          *)

\* A ')' that is not among the trailing ones.
HasInnerParen(s) ==
    \E i \in 1..Len(s) : s[i] = ")" /\ \E j \in (i + 1)..Len(s) : s[j] # ")"

\* C10 as claimed: on every occurrence string the parser inside
\* get_region_labels and the parser of get_motif_spans both reject, or both
\* accept with the same (index, start, end).
C10_ParsersAgree ==
    (inline_res # Null /\ span_res # Null) =>
        /\ IsOk(inline_res) <=> IsOk(span_res)
        /\ IsOk(inline_res) => inline_res[2] = span_res[2]

\* C10 amended: whenever the parser inside get_region_labels accepts an
\* occurrence string, the parser of get_motif_spans accepts it with the
\* same (index, start, end); the strings only get_motif_spans accepts are
\* those with a ')' before the trailing ones.
C10_InlineAcceptsImpliesSame ==
    (inline_res # Null /\ span_res # Null) =>
        /\ IsOk(inline_res) => span_res = inline_res
        /\ (IsOk(span_res) /\ ~IsOk(inline_res)) => HasInnerParen(occ)

\* C10 witness: both parsers ran on 1(0-1) and accepted it.
C10_Witness ==
    /\ occ = <<"1", "(", "0", "-", "1", ")">>
    /\ inline_res = <<"Ok", TripleAt(1, 0, 1)>>
    /\ span_res = <<"Ok", TripleAt(1, 0, 1)>>

---------------------------------------------------------------------------
(* What the properties of get_genotype speak about.                        *)

\* The positions of the records of the locus, and the first of them.
Matching == {i \in 1..Len(bcf) : bcf[i].trid = locus.id}
FirstMatch == CHOOSE i \in Matching : \A k \in Matching : i <= k

InMessage(msg, piece) == \E k \in 1..Len(msg) : msg[k] = piece

NotFoundErr == <<"Err", <<"TRID=", locus.id, " missing">> >>
IsIncompleteErr(r) ==
    /\ IsErr(r)
    /\ InMessage(r[2], " misses genotyping")
    /\ InMessage(r[2], locus.id)

\* The fields of one occurrence: what lies before '(', between '(' and '-'
\* and between '-' and the closing ')'.
FieldsOf(occurrence) == split(trim_end_matches(occurrence, ")"), {"(", "-"})

\* The MS field of a record breaks the format: the number of encodings is
\* not the number of called alleles, or an occurrence has not exactly three
\* fields, or a field is no non-negative integer, or the motif index is
\* outside the motif list.
BadOccurrence(occurrence, motifs) ==
    \/ Len(FieldsOf(occurrence)) # 3
    \/ \E k \in 1..Len(FieldsOf(occurrence)) : ~IsOk(parse_usize(FieldsOf(occurrence)[k]))
    \/ ~usize_lt(parse_usize(FieldsOf(occurrence)[1])[2], usize_from(Len(motifs)))

BadEncoding(enc, motifs) ==
    /\ enc # <<".">>
    /\ \E j \in 1..Len(split(enc, {"_"})) : BadOccurrence(split(enc, {"_"})[j], motifs)

FormatViolation(record, motifs) ==
    \/ Len(split(record.ms, {","})) # Len(record.gt)
    \/ \E i \in 1..Len(split(record.ms, {","})) :
          BadEncoding(split(record.ms, {","})[i], motifs)

\* C2: when the first matching record has the unphased-missing sentinel at
\* any position of its genotype, get_genotype returns the
\* incomplete-genotyping Err that carries the locus identifier; it neither
\* panics nor returns Ok.
C2_AnyMissingAlleleIsErr ==
    (result # Null /\ Matching # {}
        /\ \E k \in 1..Len(bcf[FirstMatch].gt) : bcf[FirstMatch].gt[k] = UnphasedMissing)
    => IsIncompleteErr(result)

\* C3: a format violation in the MS field of the matching record makes
\* get_genotype return an Err; it never panics and never returns alleles.
C3_FormatViolationIsErr ==
    (result # Null /\ Matching # {}
        /\ FormatViolation(bcf[FirstMatch], locus.motifs))
    => IsErr(result)

\* C8: get_genotype stops at the first record whose TRID is the locus
\* identifier: its result is the result on a file holding that record
\* alone, whatever comes before and after, and it is the not-found Err with
\* the locus identifier exactly when no record matches.
C8_FirstMatchDecides ==
    result # Null =>
        /\ result = NotFoundErr <=> Matching = {}
        /\ Matching # {} =>
              result = get_genotype(overflow_checks, <<bcf[FirstMatch]>>, locus)
        /\ result = NotFoundErr => InMessage(result[2], locus.id)

\* C8 witness: the file holds a record of another locus, then a record of
\* the locus that yields alleles, then a different record of the locus.
C8_Witness ==
    /\ IsOk(result)
    /\ Len(bcf) = 3
    /\ bcf[1].trid = "Y" /\ bcf[2].trid = "X" /\ bcf[3].trid = "X"
    /\ genotype_incomplete(bcf[3].gt)
    /\ Len(result[2]) = 2

---------------------------------------------------------------------------
(* What the properties of get_reads speak about.                           *)

\* The fetch of get_reads went through: neither the addition of line 89
\* nor the unwrap of line 91 panicked.
FetchDone == result # Null /\ ~IsPanic(result)

\* The alignments it yielded.
Fetched ==
    fetch(bam, locus.region.contig, search_start_of(locus),
          search_end_of(FALSE, locus)[2], FALSE)[2]

TrIsString(a) == a.tags.TR[1] = "String"
TrMatches(a) == TrIsString(a) /\ a.tags.TR[2] = locus.id
AlValid(a) == a.tags.AL[1] = "I32"
FlValid(a) == a.tags.FL[1] = "ArrayU32" /\ Len(a.tags.FL[2]) = 2
McIsBytes(a) == a.tags.MC[1] = "ArrayU8"
McAbsent(a) == a.tags.MC[1] = "Absent"

\* Every fetched alignment has a string TR tag, and those of the locus have
\* a valid AL tag and a valid FL tag of two elements.
RequiredTagsValid ==
    \A i \in 1..Len(Fetched) :
        /\ TrIsString(Fetched[i])
        /\ TrMatches(Fetched[i]) => AlValid(Fetched[i]) /\ FlValid(Fetched[i])

\* The Read of a fetched alignment of the locus: meth is Some(bytes) for a
\* non-empty byte array and None otherwise.
ReadOf(a) ==
    Read(a.seq, usize_from(a.tags.FL[2][1]), usize_from(a.tags.FL[2][2]), a.tags.AL[2],
         IF McIsBytes(a) /\ a.tags.MC[2] # <<>> THEN <<"Some", a.tags.MC[2]>>
         ELSE <<"None">>)

OfLocus == SelectSeq(Fetched, TrMatches)
ExpectedReads == [k \in 1..Len(OfLocus) |-> ReadOf(OfLocus[k])]

\* C4 as claimed: with the required tags valid, get_reads returns Ok with
\* one Read per alignment of the locus, in fetch order, alignments of other
\* loci excluded without error, meth Some(bytes) when MC is present and
\* non-empty and None otherwise; the MC tag never makes the call fail.
C4_OneReadPerMatchingAlignment ==
    (FetchDone /\ RequiredTagsValid) =>
        /\ IsOk(result)
        /\ result[2] = ExpectedReads

\* C4 amended: with the required tags valid and the MC tag of every
\* alignment of the locus either absent or a byte array, get_reads returns
\* Ok with one Read per alignment of the locus, in fetch order, meth
\* Some(bytes) for a non-empty byte array and None otherwise, and the
\* alignments of other loci change nothing; an MC tag of another type on
\* an alignment of the locus makes the call return Err.
C4_OneReadPerMatchingAlignment_McBytes ==
    (FetchDone /\ RequiredTagsValid) =>
        IF \A k \in 1..Len(OfLocus) : McIsBytes(OfLocus[k]) \/ McAbsent(OfLocus[k])
        THEN /\ result = <<"Ok", ExpectedReads>>
             /\ result = get_reads(overflow_checks, SelectSeq(bam, TrMatches), locus, FALSE)
        ELSE /\ IsErr(result)
             /\ InMessage(result[2].text, "MC")

\* C4 witness: three alignments were fetched, the second of another locus
\* with a broken MC, AL and FL tag; the call returned the two Reads of the
\* locus, the first with its methylation bytes, the second with none.
C4_Witness ==
    /\ IsOk(result)
    /\ Len(Fetched) = 3
    /\ ~TrMatches(Fetched[2]) /\ ~AlValid(Fetched[2]) /\ ~FlValid(Fetched[2])
    /\ Len(result[2]) = 2
    /\ result[2][1].meth = <<"Some", <<7, 200>> >>
    /\ result[2][2].meth = <<"None">>
    /\ result[2][2].seq = ReadSeqs[3]

\* A tag of a fetched alignment that makes the extraction fail.
TagOffends(a, tag) ==
    CASE tag = "TR" -> ~TrIsString(a)
      [] tag = "MC" -> TrMatches(a) /\ ~McIsBytes(a) /\ ~McAbsent(a)
      [] tag = "AL" -> TrMatches(a) /\ ~AlValid(a)
      [] tag = "FL" -> TrMatches(a) /\ ~FlValid(a)

\* A required tag of some fetched alignment is absent or malformed.
RequiredTagOffends ==
    \E i \in 1..Len(Fetched) : \E tag \in {"TR", "AL", "FL"} : TagOffends(Fetched[i], tag)

Offenders == {i \in 1..Len(Fetched) :
                 \E tag \in {"TR", "MC", "AL", "FL"} : TagOffends(Fetched[i], tag)}
FirstOffender == Fetched[CHOOSE i \in Offenders : \A k \in Offenders : i <= k]

\* The first offending tag of an alignment, in the order the code reads the
\* tags: TR, MC, AL, FL.
FirstOffence(a) ==
    IF TagOffends(a, "TR") THEN "TR"
    ELSE IF TagOffends(a, "MC") THEN "MC"
    ELSE IF TagOffends(a, "AL") THEN "AL"
    ELSE "FL"

NamesOneTag(msg, tag) ==
    \A t \in {"TR", "MC", "AL", "FL"} : InMessage(msg.text, t) <=> t = tag

\* The message holds the name of the read, as it is or as {:?} writes it.
NamesRead(msg, a) == InMessage(msg.args, a.qname) \/ InMessage(msg.args, Debug(a.qname))

\* C5 as claimed: when a required tag is absent or malformed the call
\* returns Err, and the error names the read, names the offending tag and
\* includes the hint about the producer version.
C5_TagErrorNamesReadTagHint ==
    (FetchDone /\ RequiredTagOffends) =>
        /\ IsErr(result)
        /\ \E i \in 1..Len(Fetched) : \E tag \in {"TR", "AL", "FL"} :
              /\ TagOffends(Fetched[i], tag)
              /\ NamesRead(result[2], Fetched[i])
              /\ InMessage(result[2].text, tag)
        /\ InMessage(result[2].text, TrgtHint)

\* C5 amended: when a required tag is absent or malformed the call returns
\* Err; the error names the first offending alignment and its first
\* offending tag in the order TR, MC, AL, FL (an MC tag that is present
\* but no byte array offends too); the hint about the producer version is
\* included exactly in the error about the TR tag.
C5_TagErrorNamesReadTag_HintForTR ==
    (FetchDone /\ RequiredTagOffends) =>
        /\ IsErr(result)
        /\ NamesRead(result[2], FirstOffender)
        /\ NamesOneTag(result[2], FirstOffence(FirstOffender))
        /\ InMessage(result[2].text, TrgtHint) <=> FirstOffence(FirstOffender) = "TR"

\* C5 witness: the first alignment is fine, the second is of the locus,
\* is named a"b\ and has no AL tag; the call returned the error about AL
\* naming that read, the quote and the backslash of its name escaped.
C5_Witness ==
    /\ Len(Fetched) = 2
    /\ TrMatches(Fetched[1]) /\ AlValid(Fetched[1]) /\ FlValid(Fetched[1])
    /\ McAbsent(Fetched[1])
    /\ Fetched[2].qname = <<97, 34, 98, 92>>
    /\ result = <<"Err", Format(<<"malformatted read. Expected ", "AL",
                                  " tag not found: ", "{:?}">>,
                                << <<34, 97, 92, 34, 98, 92, 92, 34>> >>)>>

===========================================================================
